---- MODULE Spec2Model ----
(***************************************************************************)
(* Model of pulse-survey-bot: the three blob stores of lib/store.js, and   *)
(* the stateless invocations of interactions.js and of the slash-command   *)
(* handler that read and write them.  Every store get/set is an await in   *)
(* the source, so every get and every set is one atomic step of the        *)
(* invocation that performs it; the synchronous code between two awaits    *)
(* belongs to the step of the await that precedes it.                      *)
(*                                                                         *)
(* JavaScript values: an optional value (a store miss, `undefined`) is a   *)
(* sequence of length 0 or 1.  Question index i of the source (0-based,    *)
(* key `q_${i}`) is position i+1 of the sequences here.                    *)
(***************************************************************************)
EXTENDS Integers, Sequences, FiniteSets, TLC

\* ------------------------------------------------------------------ bounds

\* Invocations started in one behaviour.
MaxInvocations == 3
\* Lines of a questions text and of an options text handed to parseQuestions.
MaxLines == 2
\* Responses of a survey handed to buildResultsBlocks.
MaxResponses == 5
\* Characters of a free-text answer handed to buildCsvExport, and responses
\* handed to it.
MaxChars == 3
MaxRows == 2

\* ------------------------------------------------------------ input domains

Users == {"U1", "U2"}
SurveyIds == {"s1", "s2"}
\* args[0] of a slash command: a survey id, or nothing
CommandArgs == SurveyIds \cup {""}
Procs == {"p1", "p2"}

\* Answer values as they appear in JSON.
\* The sequences over S of at most n elements
UpTo(S, n) == UNION { [1..k -> S] : k \in 0..n }

Undef == [t |-> "undefined", s |-> "", a |-> <<>>]
JNull == [t |-> "null", s |-> "", a |-> <<>>]
Str(x) == [t |-> "string", s |-> x, a |-> <<>>]
Arr(x) == [t |-> "array", s |-> "", a |-> x]

\* One block of view.state.values: values[`q_${i}`][`answer_${i}`].
NoBlock == [present |-> FALSE, selected_option |-> Undef,
            selected_options |-> Undef, value |-> Undef]
SelectBlock(v) == [present |-> TRUE, selected_option |-> Str(v),
                   selected_options |-> Undef, value |-> Undef]
MultiBlock(vs) == [present |-> TRUE, selected_option |-> Undef,
                   selected_options |-> Arr(vs), value |-> Undef]
TextBlock(v) == [present |-> TRUE, selected_option |-> Undef,
                 selected_options |-> Undef, value |-> v]

\* The submitted forms: one with a free text, one with the optional free text
\* left empty (Slack sends null).
FormValues ==
  { << SelectBlock("5"), TextBlock(Str("secret")), MultiBlock(<<"A", "B">>) >>,
    << SelectBlock("3"), TextBlock(JNull), MultiBlock(<<"A">>) >> }

\* -------------------------------------------------------------- store.js

\* crypto.createHash("sha256").update(`${surveyId}:${userId}`).digest("hex"):
\* the digest of the concatenation, collision-free on the strings modelled.
sha256(m) == "sha256(" \o m \o ")"
\* (variant: the user id left out of the hashed string)
hashOf_withoutUser(surveyId, userId) == sha256(surveyId \o ":")
hashOf(surveyId, userId) == sha256(surveyId \o ":" \o userId)

\* store.get(key, {type: "json"}): the value, or nothing.
get(store, key) == IF key \in DOMAIN store THEN << store[key] >> ELSE << >>
\* store.setJSON(key, value)
setJSON(store, key, value) ==
  [k \in DOMAIN store \cup {key} |-> IF k = key THEN value ELSE store[k]]
\* (await store.get(...)) || []
orEmpty(opt) == IF opt = << >> THEN << >> ELSE opt[1]
\* Array.prototype.includes
includes(seq, x) == \E i \in 1..Len(seq) : seq[i] = x

\* Array.prototype.push on a copy
push(seq, x) == Append(seq, x)

\* Object spread {...base, ...over}: the fields of both, those of `over` winning.
spread(base, over) ==
  [k \in DOMAIN base \cup DOMAIN over |->
     IF k \in DOMAIN over THEN over[k] ELSE base[k]]

\* (variant: the caller's fields spread last)
createRecord_specLast(id, survey, createdAt) ==
  spread([id |-> id, status |-> "open", responseCount |-> 0, createdAt |-> createdAt],
         survey)
\* createSurvey's record for any argument:
\* {id, ...survey, status: "open", responseCount: 0, createdAt}
createRecord(id, survey, createdAt) ==
  spread(spread([id |-> id], survey),
         [status |-> "open", responseCount |-> 0, createdAt |-> createdAt])

\* createSurvey's record: {id, ...survey, status: "open", responseCount: 0, createdAt}
newRecord(id, title, questions, createdBy, showResults, shareFreetext, createdAt) ==
  [id |-> id, title |-> title, questions |-> questions, createdBy |-> createdBy,
   settings |-> [showResults |-> showResults, shareFreetext |-> shareFreetext],
   status |-> "open", responseCount |-> 0, createdAt |-> createdAt]

\* (variant: the update replaces the record instead of being merged over it)
mergeClosed_replacing(survey) ==
  [survey EXCEPT !.status = "closed", !.title = "", !.questions = << >>]
\* updateSurvey's merge {...survey, ...updates} for the update {status: "closed"}
mergeClosed(survey) == [survey EXCEPT !.status = "closed"]

\* addResponse: survey.responseCount = existing.length
withCount(survey, existing) == [survey EXCEPT !.responseCount = Len(existing)]

\* key of a user's index in the survey store
userKey(userId) == "user_" \o userId

\* getUserSurveys: surveys.filter(Boolean), the lookups that found a record
filterBoolean(results) ==
  LET isFound(opt) == opt # << >>
      kept == SelectSeq(results, isFound)
  IN [i \in 1..Len(kept) |-> kept[i][1]]

\* (variant: a record is placed before those of its own createdAt)
insertNewestFirst_beforeTies(sorted, x) ==
  LET newer == {i \in 1..Len(sorted) : sorted[i].createdAt > x.createdAt}
  IN SubSeq(sorted, 1, Cardinality(newer)) \o << x >> \o
     SubSeq(sorted, Cardinality(newer) + 1, Len(sorted))
\* sort((a, b) => new Date(b.createdAt) - new Date(a.createdAt)): createdAt is
\* the clock's millisecond count, which toISOString and new Date carry over
\* unchanged.  Array.prototype.sort is stable: a record goes behind every
\* record placed before it that is not older.
insertNewestFirst(sorted, x) ==
  LET notOlder == {i \in 1..Len(sorted) : sorted[i].createdAt >= x.createdAt}
  IN SubSeq(sorted, 1, Cardinality(notOlder)) \o << x >> \o
     SubSeq(sorted, Cardinality(notOlder) + 1, Len(sorted))
RECURSIVE sortNewestFirst(_)
sortNewestFirst(seq) ==
  IF seq = << >> THEN << >>
  ELSE insertNewestFirst(sortNewestFirst(SubSeq(seq, 1, Len(seq) - 1)), seq[Len(seq)])

\* ------------------------------------------------------ interactions.js

\* handleSurveyResponseSubmit: the answer taken from one block for a question.
answerOf(q, blockValues) ==
  CASE q.type = "scale" -> blockValues.selected_option
    [] q.type = "multi-select" -> blockValues.selected_options
    [] q.type = "free-text" -> blockValues.value
    [] OTHER -> Undef

\* handleSurveyResponseSubmit: answers[`q_${i}`] for every question; a question
\* without a block has no answer.  Nothing of the payload's user enters it.
extractAnswers(questions, values) ==
  [i \in 1..Len(questions) |->
     IF i \in DOMAIN values /\ values[i].present
     THEN answerOf(questions[i], values[i])
     ELSE Undef]

\* ------------------------------------------------------ parse-questions.js

\* A text is a sequence of tokens: a newline, a blank, a marker, "Q", a digit,
\* a colon, a comma, or a word (a run of other characters).
Space == " "
Newline == "\n"
Digits == {"0", "1", "2", "3"}
MultiMarkers == {"(multi-select)", "(Multi-Select)"}
FreeMarkers == {"(free-text)", "(FREE-TEXT)"}

\* String.prototype.split(sep): the pieces between the separators
RECURSIVE split(_, _)
split(text, sep) ==
  IF \A i \in 1..Len(text) : text[i] # sep THEN << text >>
  ELSE LET i == CHOOSE k \in 1..Len(text) :
                  text[k] = sep /\ \A j \in 1..(k - 1) : text[j] # sep
       IN << SubSeq(text, 1, i - 1) >> \o split(SubSeq(text, i + 1, Len(text)), sep)

\* String.prototype.trim
RECURSIVE trim(_)
trim(text) ==
  IF text # << >> /\ text[1] = Space THEN trim(Tail(text))
  ELSE IF text # << >> /\ text[Len(text)] = Space
       THEN trim(SubSeq(text, 1, Len(text) - 1))
  ELSE text

\* .split("\n").map(l => l.trim()).filter(Boolean): the non-blank trimmed lines
nonBlankLines(text) ==
  LET lines == split(text, Newline)
      nonEmpty(l) == l # << >>
  IN SelectSeq([i \in 1..Len(lines) |-> trim(lines[i])], nonEmpty)

\* The string a token sequence stands for
RECURSIVE join(_)
join(text) == IF text = << >> THEN "" ELSE text[1] \o join(Tail(text))

\* /\(multi-select\)/i.test(line), /\(free-text\)/i.test(line)
test(markers, line) == \E i \in 1..Len(line) : line[i] \in markers

\* line.replace(/\s*\(marker\)/i, ""): the first marker goes, with the blanks
\* in front of it; there is no g flag, so a second marker stays.
replace(line, markers) ==
  IF ~test(markers, line) THEN line
  ELSE LET m == CHOOSE k \in 1..Len(line) :
                  line[k] \in markers /\ \A j \in 1..(k - 1) : line[j] \notin markers
           b == CHOOSE k \in 1..m :
                  /\ \A j \in k..(m - 1) : line[j] = Space
                  /\ (k = 1 \/ line[k - 1] # Space)
       IN SubSeq(line, 1, b - 1) \o SubSeq(line, m + 1, Len(line))

\* parseInt of a run of digits
RECURSIVE parseInt(_)
parseInt(digits) ==
  IF digits = << >> THEN 0
  ELSE 10 * parseInt(SubSeq(digits, 1, Len(digits) - 1))
       + (CHOOSE n \in 0..9 : ToString(n) = digits[Len(digits)])

\* The first position from `from` on whose token is not in `class`
RECURSIVE skip(_, _, _)
skip(line, from, class) ==
  IF from <= Len(line) /\ line[from] \in class THEN skip(line, from + 1, class)
  ELSE from

\* line.match(/^Q(\d+)\s*:\s*(.+)$/i): nothing, or the number and the rest
match(line) ==
  LET d == skip(line, 2, Digits)
      c == skip(line, d, {Space})
      r == skip(line, c + 1, {Space})
  IN IF /\ line # << >> /\ line[1] \in {"Q", "q"}
        /\ d > 2
        /\ c <= Len(line) /\ line[c] = ":"
        /\ r <= Len(line)
     THEN << [qNum |-> parseInt(SubSeq(line, 2, d - 1)),
              rest |-> SubSeq(line, r, Len(line))] >>
     ELSE << >>

\* match[2].split(",").map(o => o.trim())
optionsOf(rest) ==
  LET parts == split(rest, ",")
  IN [i \in 1..Len(parts) |-> join(trim(parts[i]))]

\* (variant: the first line for a number is kept)
RECURSIVE optionsMap_firstWins(_, _)
optionsMap_firstWins(lines, n) ==
  IF n = 0 THEN << >>
  ELSE LET before == optionsMap_firstWins(lines, n - 1)
           m == match(lines[n])
       IN IF m = << >> \/ m[1].qNum \in DOMAIN before THEN before
          ELSE [k \in DOMAIN before \cup {m[1].qNum} |->
                  IF k = m[1].qNum THEN optionsOf(m[1].rest) ELSE before[k]]
\* optionsMap after the first n option lines: a line that matches sets the
\* entry of its number, a line that does not is passed over.
RECURSIVE optionsMap(_, _)
optionsMap(lines, n) ==
  IF n = 0 THEN << >>
  ELSE LET before == optionsMap(lines, n - 1)
           m == match(lines[n])
       IN IF m = << >> THEN before
          ELSE [k \in DOMAIN before \cup {m[1].qNum} |->
                  IF k = m[1].qNum THEN optionsOf(m[1].rest) ELSE before[k]]

DefaultOptions == << "Option A", "Option B", "Option C" >>

\* The question made of line i; only a multi-select question has options.
questionOf(line, qNum, map) ==
  IF test(MultiMarkers, line)
  THEN [label |-> join(trim(replace(line, MultiMarkers))), type |-> "multi-select",
        options |-> IF qNum \in DOMAIN map THEN map[qNum] ELSE DefaultOptions]
  ELSE IF test(FreeMarkers, line)
  THEN [label |-> join(trim(replace(line, FreeMarkers))), type |-> "free-text"]
  ELSE [label |-> join(trim(line)), type |-> "scale"]

\* parseQuestions(rawQuestions, rawOptions)
parseQuestions(rawQuestions, rawOptions) ==
  LET lines == nonBlankLines(rawQuestions)
      optionLines == nonBlankLines(rawOptions)
      map == optionsMap(optionLines, Len(optionLines))
  IN [i \in 1..Len(lines) |-> questionOf(lines[i], i, map)]

\* The questions of created surveys: what handleCreateSurveySubmit gets from
\* parseQuestions for a modal with one question of every type.
QuestionLists ==
  { parseQuestions(<< "Rate", Newline, "Why", Space, "(free-text)", Newline,
                      "Pick", Space, "(multi-select)" >>,
                   << "Q", "3", ":", Space, "A", ",", Space, "B" >>) }

\* ------------------------------------------------------------ blocks.js

\* The strings parseFloat reads as a number, and the number
NumericStrings == {"0", "1", "2", "3", "4", "5", "6"}
numOf(str) == CHOOSE n \in 0..6 : ToString(n) = str

\* parseFloat(r[key]): a number, or nothing for NaN.  An array is read through
\* its string form, so through its first element.
parseFloat(v) ==
  CASE v.t = "string" /\ v.s \in NumericStrings -> << numOf(v.s) >>
    [] v.t = "array" /\ Len(v.a) > 0 /\ v.a[1] \in NumericStrings -> << numOf(v.a[1]) >>
    [] OTHER -> << >>

\* r[key] of a stored response
answerAt(r, i) == IF i \in DOMAIN r THEN r[i] ELSE Undef

\* Boolean(x) for an answer value
truthy(v) == (v.t = "string" /\ v.s # "") \/ v.t = "array"

RECURSIVE sum(_)
sum(seq) == IF seq = << >> THEN 0 ELSE Head(seq) + sum(Tail(seq))

\* (variant: the quotient cut off instead of rounded)
roundDiv_truncated(a, b) == a \div b
\* Math.round(a / b) for a >= 0, b > 0
roundDiv(a, b) == (2 * a + b) \div (2 * b)

count(seq, x) == Cardinality({i \in 1..Len(seq) : seq[i] = x})

Block ==
  [type |-> "", label |-> "", title |-> "", status |-> "", n |-> 0, nan |-> FALSE,
   tenths |-> 0, bars |-> 0, dist |-> << >>, lines |-> << >>, texts |-> << >>]

\* The scale section: values = responses.map(parseFloat).filter(Boolean), their
\* mean rounded to one decimal (kept in tenths), the bar and the distribution.
scaleBlock(q, i, responses) ==
  LET parsed == [k \in 1..Len(responses) |-> parseFloat(answerAt(responses[k], i))]
      kept == SelectSeq(parsed, LAMBDA x : x # << >> /\ x[1] # 0)
      values == [k \in 1..Len(kept) |-> kept[k][1]]
      n == Len(values)
  IN [Block EXCEPT
        !.type = "scale", !.label = q.label, !.n = n, !.nan = (n = 0),
        !.tenths = IF n = 0 THEN 0 ELSE roundDiv(10 * sum(values), n),
        !.bars = IF n = 0 THEN 0 ELSE roundDiv(sum(values), n),
        !.dist = [v \in 1..5 |-> count(values, v)]]

RECURSIVE flat(_)
flat(seqs) == IF seqs = << >> THEN << >> ELSE Head(seqs) \o flat(Tail(seqs))

\* the distinct elements of a sequence, in first-seen order
RECURSIVE distinct(_)
distinct(seq) ==
  IF seq = << >> THEN << >>
  ELSE LET rest == distinct(SubSeq(seq, 1, Len(seq) - 1))
           x == seq[Len(seq)]
       IN IF includes(rest, x) THEN rest ELSE Append(rest, x)

\* Object.entries(counts): the keys that are array indices first, in ascending
\* order, then the other keys in the order they were inserted
isIndex(str) == str \in NumericStrings
ownKeys(keys) ==
  LET idx == {keys[k] : k \in {j \in 1..Len(keys) : isIndex(keys[j])}}
      ascending == [k \in 1..Cardinality(idx) |->
                      CHOOSE x \in idx :
                        Cardinality({y \in idx : numOf(y) < numOf(x)}) = k - 1]
  IN ascending \o SelectSeq(keys, LAMBDA x : ~isIndex(x))

\* a stable sort, descending by c
RECURSIVE sortDesc(_)
insertDesc(sorted, e) ==
  LET k == Cardinality({j \in 1..Len(sorted) : sorted[j].c >= e.c})
  IN SubSeq(sorted, 1, k) \o << e >> \o SubSeq(sorted, k + 1, Len(sorted))
sortDesc(seq) ==
  IF seq = << >> THEN << >>
  ELSE insertDesc(sortDesc(SubSeq(seq, 1, Len(seq) - 1)), seq[Len(seq)])

\* The multi-select section: every selection of every response counted per
\* option, percentages over the number of responses.
multiBlock(q, i, responses) ==
  LET sels == [k \in 1..Len(responses) |->
                 LET v == answerAt(responses[k], i)
                 IN IF v.t = "array" THEN v.a
                    ELSE IF truthy(v) THEN << v.s >> ELSE << >>]
      all == flat(sels)
      opts == ownKeys(distinct(all))
      entries == [k \in 1..Len(opts) |-> [opt |-> opts[k], c |-> count(all, opts[k])]]
      sorted == sortDesc(entries)
      total == Len(responses)
  IN [Block EXCEPT
        !.type = "multi-select", !.label = q.label,
        !.lines = [k \in 1..Len(sorted) |->
                     LET pct == roundDiv(sorted[k].c * 100, total)
                     IN [opt |-> sorted[k].opt, c |-> sorted[k].c, pct |-> pct,
                         barLen |-> roundDiv(pct, 10)]]]

\* The free-text section: verbatim for an admin or, outside a share, when the
\* survey's shareFreetext setting is on; otherwise a count.
\* (variant: the share check left out)
showFreeText_ignoringShare(survey, isAdmin, isShare) ==
  isAdmin \/ survey.settings.shareFreetext
showFreeText(survey, isAdmin, isShare) ==
  isAdmin \/ (~isShare /\ survey.settings.shareFreetext)

freeTextBlock(survey, q, i, responses, isAdmin, isShare) ==
  LET raw == [k \in 1..Len(responses) |-> answerAt(responses[k], i)]
      texts == SelectSeq(raw, truthy)
  IN IF showFreeText(survey, isAdmin, isShare) /\ Len(texts) > 0
     THEN [Block EXCEPT !.type = "free-text", !.label = q.label,
                        !.n = Len(texts), !.texts = texts]
     ELSE IF isShare
     THEN [Block EXCEPT !.type = "free-text-count-share", !.label = q.label,
                        !.n = Len(texts)]
     ELSE [Block EXCEPT !.type = "free-text-count", !.label = q.label,
                        !.n = Len(texts)]

questionBlock(survey, i, responses, isAdmin, isShare) ==
  LET q == survey.questions[i]
  IN CASE q.type = "scale" -> << scaleBlock(q, i, responses) >>
       [] q.type = "multi-select" -> << multiBlock(q, i, responses) >>
       [] q.type = "free-text" ->
            << freeTextBlock(survey, q, i, responses, isAdmin, isShare) >>
       [] OTHER -> << >>

\* buildResultsBlocks(survey, responses, {isAdmin, isShare})
buildResultsBlocks(survey, responses, isAdmin, isShare) ==
  LET header == [Block EXCEPT !.type = "header", !.title = survey.title,
                              !.n = Len(responses), !.status = survey.status]
      divider == [Block EXCEPT !.type = "divider"]
  IN IF Len(responses) = 0
     THEN << header, divider, [Block EXCEPT !.type = "no-responses"] >>
     ELSE << header, divider >> \o
          flat([i \in 1..Len(survey.questions) |->
                  questionBlock(survey, i, responses, isAdmin, isShare)
                  \o << divider >>])

\* ------------------------------------------------------------------ state

VARIABLES
  surveys,     \* store "pulse-surveys": survey id -> Survey, user_<id> -> ids
  responses,   \* store "pulse-responses": survey id -> list of answers
  tracking,    \* store "pulse-tracking": survey id -> list of digests
  procs,       \* the invocations in flight, one per slot
  started,     \* invocations started so far
  now,         \* the clock read by createSurvey
  authors,     \* history: who submitted each entry of `responses`
  appended,    \* history: addResponse calls completed, per survey
  marked       \* history: the pairs markUserResponded has returned for

vars == << surveys, responses, tracking, procs, started, now, authors, appended,
          marked >>
stores == << surveys, responses, tracking >>

NoOut == [to |-> "", isAdmin |-> FALSE, isShare |-> FALSE, blocks |-> << >>,
          csv |-> << >>]

Idle ==
  [kind |-> "idle", pc |-> "idle", user |-> "", sid |-> "",
   values |-> << >>,
   survey |-> << >>, existing |-> << >>, existingBy |-> << >>,
   answers |-> << >>, set |-> << >>, index |-> << >>, record |-> << >>,
   count |-> 0,
   seen |-> FALSE, wrote |-> 0, ret |-> << >>, faulted |-> FALSE,
   ids |-> << >>, results |-> << >>, pending |-> {}, args |-> << >>,
   outcome |-> "", out |-> NoOut]

Init ==
  /\ surveys = << >>
  /\ responses = << >>
  /\ tracking = << >>
  /\ procs = [p \in Procs |-> Idle]
  /\ started = 0
  /\ now = 0
  /\ authors = << >>
  /\ appended = [s \in SurveyIds |-> 0]
  /\ marked = {}

\* An invocation ends: its outcome and what it delivered stay visible until the
\* slot is released.
finish(r, outcome, out) ==
  [Idle EXCEPT !.kind = r.kind, !.user = r.user, !.sid = r.sid, !.survey = r.survey,
               !.seen = r.seen, !.wrote = r.wrote, !.count = r.count,
               !.ret = r.ret, !.ids = r.ids, !.args = r.args,
               !.pc = "done", !.outcome = outcome, !.out = out]

\* A request arrives: the invocation's own state, before its first await.  The
\* request touches no store, so it is taken together with the first store read.
begin(kind, user, sid) ==
  [Idle EXCEPT !.kind = kind, !.user = user, !.sid = sid]

canBegin(p) == procs[p].pc = "idle" /\ started < MaxInvocations

\* The handler returns its Response; the slot is free again.
Return(p) ==
  /\ procs[p].pc = "done"
  /\ procs' = [procs EXCEPT ![p] = Idle]
  /\ UNCHANGED << surveys, responses, tracking, started, now, authors, appended, marked >>

\* --------------------------------------- handleSurveyResponseSubmit (submit)

\* getSurvey(surveyId); `if (!survey)` answers "Survey not found."
handleSurveyResponseSubmit_getSurvey(p) ==
  /\ canBegin(p)
  /\ \E user \in Users, sid \in SurveyIds, values \in FormValues :
       LET r == [begin("submit", user, sid) EXCEPT
                   !.values = values, !.survey = get(surveys, sid)]
       IN procs' = [procs EXCEPT ![p] =
            IF r.survey = << >>
            THEN finish(r, "not_found", NoOut)
            ELSE [r EXCEPT !.pc = "hasUserResponded"]]
  /\ started' = started + 1
  /\ UNCHANGED << surveys, responses, tracking, now, authors, appended, marked >>

\* hasUserResponded(surveyId, userId): the digest is looked up in the set read
\* from the tracking store.
\* (variant: the lookup made with the digest of the user id alone)
hasUserResponded_otherDigest(set, surveyId, userId) == includes(set, sha256(userId))
hasUserResponded(set, surveyId, userId) == includes(set, hashOf(surveyId, userId))

\* (variant: the user marked straight after the check, before addResponse)
handleSurveyResponseSubmit_hasUserResponded_markFirst(p) ==
  /\ procs[p].kind = "submit" /\ procs[p].pc = "hasUserResponded"
  /\ LET r == procs[p]
         set == orEmpty(get(tracking, r.sid))
     IN procs' = [procs EXCEPT ![p] =
          IF includes(set, hashOf(r.sid, r.user))
          THEN finish([r EXCEPT !.seen = TRUE], "already_responded", NoOut)
          ELSE [r EXCEPT !.pc = "markUserResponded_get",
                         !.answers = extractAnswers(r.survey[1].questions, r.values)]]
  /\ UNCHANGED << surveys, responses, tracking, started, now, authors, appended, marked >>

\* `if (await hasUserResponded(...))` answers "You've already submitted a
\* response."; otherwise the answers are extracted from the form.
handleSurveyResponseSubmit_hasUserResponded(p) ==
  /\ procs[p].kind = "submit" /\ procs[p].pc = "hasUserResponded"
  /\ LET r == procs[p]
         set == orEmpty(get(tracking, r.sid))
     IN procs' = [procs EXCEPT ![p] =
          IF hasUserResponded(set, r.sid, r.user)
          THEN finish([r EXCEPT !.seen = TRUE], "already_responded", NoOut)
          ELSE [r EXCEPT !.pc = "addResponse_get",
                         !.answers = extractAnswers(r.survey[1].questions, r.values)]]
  /\ UNCHANGED << surveys, responses, tracking, started, now, authors, appended, marked >>

\* (variant: the submitter's id stored with the answers)
addResponse_get_withUser(p) ==
  /\ procs[p].pc = "addResponse_get"
  /\ LET r == procs[p]
     IN procs' = [procs EXCEPT ![p] =
          [r EXCEPT !.pc = "addResponse_set",
                    !.existing = push(orEmpty(get(responses, r.sid)),
                                      Append(r.answers, Str(r.user))),
                    !.existingBy = push(orEmpty(get(authors, r.sid)), r.user)]]
  /\ UNCHANGED << surveys, responses, tracking, started, now, authors, appended, marked >>

\* addResponse: existing = (await store.get(surveyId)) || []; existing.push(answers)
addResponse_get(p) ==
  /\ procs[p].pc = "addResponse_get"
  /\ LET r == procs[p]
     IN procs' = [procs EXCEPT ![p] =
          [r EXCEPT !.pc = "addResponse_set",
                    !.existing = push(orEmpty(get(responses, r.sid)), r.answers),
                    !.existingBy = push(orEmpty(get(authors, r.sid)), r.user)]]
  /\ UNCHANGED << surveys, responses, tracking, started, now, authors, appended, marked >>

\* addResponse: await store.setJSON(surveyId, existing)
addResponse_set(p) ==
  /\ procs[p].pc = "addResponse_set"
  /\ LET r == procs[p]
     IN /\ responses' = setJSON(responses, r.sid, r.existing)
        /\ authors' = setJSON(authors, r.sid, r.existingBy)
        /\ procs' = [procs EXCEPT ![p] =
             [r EXCEPT !.pc = "addResponse_getSurvey", !.wrote = r.wrote + 1]]
  /\ UNCHANGED << surveys, tracking, started, now, appended, marked >>

\* addResponse: survey = await surveyStore.get(surveyId); if (survey)
\* survey.responseCount = existing.length.  Without a survey addResponse returns
\* existing.length at once.
addResponse_getSurvey(p) ==
  /\ procs[p].pc = "addResponse_getSurvey"
  /\ LET r == procs[p]
         survey == get(surveys, r.sid)
     IN /\ procs' = [procs EXCEPT ![p] =
             IF survey = << >>
             THEN [r EXCEPT !.pc = "markUserResponded_get", !.count = Len(r.existing)]
             ELSE [r EXCEPT !.pc = "addResponse_setSurvey",
                            !.record = << withCount(survey[1], r.existing) >>]]
        /\ appended' = IF survey = << >>
                       THEN [appended EXCEPT ![r.sid] = @ + 1]
                       ELSE appended
  /\ UNCHANGED << surveys, responses, tracking, started, now, authors, marked >>

\* addResponse: await surveyStore.setJSON(surveyId, survey); return existing.length
addResponse_setSurvey(p) ==
  /\ procs[p].pc = "addResponse_setSurvey"
  /\ LET r == procs[p]
     IN /\ surveys' = setJSON(surveys, r.sid, r.record[1])
        /\ procs' = [procs EXCEPT ![p] =
             [r EXCEPT !.pc = "markUserResponded_get", !.record = << >>,
                       !.count = Len(r.existing), !.wrote = r.wrote + 1]]
        /\ appended' = [appended EXCEPT ![r.sid] = @ + 1]
  /\ UNCHANGED << responses, tracking, started, now, authors, marked >>

\* After markUserResponded returns.  A direct call is over; the submit handler
\* sends a plain confirmation and is over, unless the survey shows results.
afterMark(r) ==
  IF r.kind = "markUserResponded" THEN finish(r, "marked", NoOut)
  ELSE IF r.survey[1].settings.showResults
  THEN [r EXCEPT !.pc = "showResults_getResponses"]
  ELSE finish(r, "recorded", [NoOut EXCEPT !.to = r.user])

\* markUserResponded: set = (await store.get(surveyId)) || []; a digest already
\* in the set ends the call without a write.
markUserResponded_get(p) ==
  /\ procs[p].pc = "markUserResponded_get"
  /\ LET r == procs[p]
         set == orEmpty(get(tracking, r.sid))
     IN IF ~includes(set, hashOf(r.sid, r.user))
        THEN /\ procs' = [procs EXCEPT ![p] =
                  [r EXCEPT !.pc = "markUserResponded_set",
                            !.set = push(set, hashOf(r.sid, r.user))]]
             /\ UNCHANGED marked
        ELSE /\ procs' = [procs EXCEPT ![p] = afterMark(r)]
             /\ marked' = marked \cup {<< r.sid, r.user >>}
  /\ UNCHANGED << surveys, responses, tracking, started, now, authors, appended >>

\* markUserResponded: await store.setJSON(surveyId, set)
markUserResponded_set(p) ==
  /\ procs[p].pc = "markUserResponded_set"
  /\ LET r == procs[p]
     IN /\ tracking' = setJSON(tracking, r.sid, r.set)
        /\ procs' = [procs EXCEPT ![p] =
             afterMark([r EXCEPT !.set = << >>, !.wrote = r.wrote + 1])]
        /\ marked' = marked \cup {<< r.sid, r.user >>}
  /\ UNCHANGED << surveys, responses, started, now, authors, appended >>

\* showResults: allResponses = await getResponses(surveyId); the results are
\* built for a viewer who is neither admin nor a share and sent to the user.
handleSurveyResponseSubmit_getResponses(p) ==
  /\ procs[p].pc = "showResults_getResponses"
  /\ LET r == procs[p]
         all == orEmpty(get(responses, r.sid))
     IN procs' = [procs EXCEPT ![p] =
          finish(r, "recorded",
                 [NoOut EXCEPT !.to = r.user,
                    !.blocks = buildResultsBlocks(r.survey[1], all, FALSE, FALSE)])]
  /\ UNCHANGED << surveys, responses, tracking, started, now, authors, appended, marked >>

\* ------------------------------------------- handleCreateSurveySubmit (create)

\* new Date(): the clock reads as at the last reading, or later.
clock == {now, now + 1}

\* crypto.randomUUID().slice(0, 8): eight hexadecimal digits, any of them.
randomUUID == SurveyIds

\* The ids no stored survey has.  The handlers and createSurvey below take the
\* generated id among these: ids are treated as unique, and the case of a
\* repeated id is examined on its own (call_createSurvey_anyId).
freshIds == randomUUID \ DOMAIN surveys

\* createSurvey: the record is built and stored under its id.
createSurvey(p) ==
  /\ canBegin(p)
  /\ \E user \in Users, questions \in QuestionLists, id \in freshIds,
        showResults \in BOOLEAN, shareFreetext \in BOOLEAN :
     \E createdAt \in clock :
       LET record == newRecord(id, "Pulse", questions, user, showResults,
                               shareFreetext, createdAt)
       IN /\ surveys' = setJSON(surveys, id, record)
          /\ now' = createdAt
          /\ procs' = [procs EXCEPT ![p] =
               [begin("create", user, id) EXCEPT
                  !.pc = "addSurveyToUserIndex_get", !.survey = << record >>,
                  !.wrote = 1]]
  /\ started' = started + 1
  /\ UNCHANGED << responses, tracking, authors, appended, marked >>

\* addSurveyToUserIndex: index = (await store.get(key)) || []; index.push(surveyId)
addSurveyToUserIndex_get(p) ==
  /\ procs[p].pc = "addSurveyToUserIndex_get"
  /\ LET r == procs[p]
     IN procs' = [procs EXCEPT ![p] =
          [r EXCEPT !.pc = "addSurveyToUserIndex_set",
                    !.index = push(orEmpty(get(surveys, userKey(r.user))), r.sid)]]
  /\ UNCHANGED << surveys, responses, tracking, started, now, authors, appended, marked >>

\* addSurveyToUserIndex: await store.setJSON(key, index); the creator is told.
addSurveyToUserIndex_set(p) ==
  /\ procs[p].pc = "addSurveyToUserIndex_set"
  /\ LET r == procs[p]
     IN /\ surveys' = setJSON(surveys, userKey(r.user), r.index)
        /\ procs' = [procs EXCEPT ![p] =
             LET done == [r EXCEPT !.index = << >>, !.wrote = r.wrote + 1]
             IN IF r.kind = "addSurveyToUserIndex"
                THEN finish(done, "returned", NoOut)
                ELSE finish(done, "created", [NoOut EXCEPT !.to = r.user])]
  /\ UNCHANGED << responses, tracking, started, now, authors, appended, marked >>

\* ------------------------------------------------ slash commands and buttons

\* The start of a command or button handler: the request is taken and
\* getSurvey(surveyId) is awaited; a command without an id reads nothing.
lookup(kind, user, sid) ==
  [begin(kind, user, sid) EXCEPT
     !.survey = IF sid = "" THEN << >> ELSE get(surveys, sid)]

\* The checks every handler makes first: the usage text when the id is missing,
\* "Survey not found." when getSurvey returned null; `next` otherwise.
found(r, next) ==
  IF r.sid = "" THEN finish(r, "usage", NoOut)
  ELSE IF r.survey = << >> THEN finish(r, "not_found", NoOut)
  ELSE next

\* handleClose: only the creator may close; a closed survey is reported as such.
handleClose_decide(r) ==
  found(r, IF r.user # r.survey[1].createdBy THEN finish(r, "forbidden", NoOut)
           ELSE IF r.survey[1].status = "closed"
                THEN finish(r, "already_closed", NoOut)
           ELSE [r EXCEPT !.pc = "updateSurvey_get"])

handleClose_getSurvey(p) ==
  /\ canBegin(p)
  /\ \E user \in Users, sid \in CommandArgs :
       LET r == lookup("close", user, sid)
       IN procs' = [procs EXCEPT ![p] = handleClose_decide(r)]
  /\ started' = started + 1
  /\ UNCHANGED << surveys, responses, tracking, now, authors, appended, marked >>

\* (variant: the button closes without looking at the status)
list_close_decide_unchecked(r) == found(r, [r EXCEPT !.pc = "updateSurvey_get"])
\* list_close: a closed survey is reported as such; otherwise it is closed.
list_close_decide(r) ==
  found(r, IF r.survey[1].status = "closed" THEN finish(r, "already_closed", NoOut)
           ELSE [r EXCEPT !.pc = "updateSurvey_get"])

list_close_getSurvey(p) ==
  /\ canBegin(p)
  /\ \E user \in Users, sid \in SurveyIds :
       LET r == lookup("list_close", user, sid)
       IN procs' = [procs EXCEPT ![p] = list_close_decide(r)]
  /\ started' = started + 1
  /\ UNCHANGED << surveys, responses, tracking, now, authors, appended, marked >>

\* After closeSurvey returns `ret`.  A direct call hands it back; the handlers
\* do not look at it and report the close.
afterClose(r, ret) ==
  IF r.kind = "closeSurvey" THEN finish([r EXCEPT !.ret = ret], "returned", NoOut)
  ELSE finish(r, "closed",
              [NoOut EXCEPT !.to = IF r.kind = "close" THEN "channel" ELSE r.user])

\* (variant: a missing survey is created by the update)
updateSurvey_get_upsert(p) ==
  /\ procs[p].pc = "updateSurvey_get"
  /\ LET r == procs[p]
         survey == get(surveys, r.sid)
     IN procs' = [procs EXCEPT ![p] =
          [r EXCEPT !.pc = "updateSurvey_set",
                    !.record = IF survey = << >> THEN << [status |-> "closed"] >>
                               ELSE << mergeClosed(survey[1]) >>]]
  /\ UNCHANGED << surveys, responses, tracking, started, now, authors, appended, marked >>

\* closeSurvey -> updateSurvey: survey = await store.get(id); `if (!survey)
\* return null`, else updated = {...survey, status: "closed"}
updateSurvey_get(p) ==
  /\ procs[p].pc = "updateSurvey_get"
  /\ LET r == procs[p]
         survey == get(surveys, r.sid)
     IN procs' = [procs EXCEPT ![p] =
          IF survey = << >>
          THEN afterClose(r, << >>)
          ELSE [r EXCEPT !.pc = "updateSurvey_set",
                         !.record = << mergeClosed(survey[1]) >>]]
  /\ UNCHANGED << surveys, responses, tracking, started, now, authors, appended, marked >>

\* updateSurvey: await store.setJSON(id, updated); return updated
updateSurvey_set(p) ==
  /\ procs[p].pc = "updateSurvey_set"
  /\ LET r == procs[p]
     IN /\ surveys' = setJSON(surveys, r.sid, r.record[1])
        /\ procs' = [procs EXCEPT ![p] =
             afterClose([r EXCEPT !.record = << >>, !.wrote = r.wrote + 1], r.record)]
  /\ UNCHANGED << responses, tracking, started, now, authors, appended, marked >>

\* The characters of a string.  The strings of up to MaxChars characters out
\* of a letter, the comma, the double quote and the line break are known by
\* their characters; any other string of the model is a word that holds none
\* of the three.
Comma == ","
Quote == "\""
Chars == {"a", Comma, Quote, Newline}
Spelled == { << join(cs), cs >> : cs \in UpTo(Chars, MaxChars) }
chars(str) ==
  IF \E pr \in Spelled : pr[1] = str
  THEN (CHOOSE pr \in Spelled : pr[1] = str)[2]
  ELSE << str >>

\* Array.prototype.join(sep) on texts
RECURSIVE joinBy(_, _)
joinBy(parts, sep) ==
  IF parts = << >> THEN << >>
  ELSE IF Len(parts) = 1 THEN parts[1]
  ELSE parts[1] \o sep \o joinBy(Tail(parts), sep)

\* val.replace(/"/g, '""')
doubleQuotes(cs) ==
  flat([k \in 1..Len(cs) |-> IF cs[k] = Quote THEN << Quote, Quote >> ELSE << cs[k] >>])

\* One field of a row: an array joined with ", " between quotes; a string with
\* a comma or a double quote between quotes, its quotes doubled; val || "".
csvField(val) ==
  IF val.t = "array"
  THEN << Quote >> \o joinBy([k \in 1..Len(val.a) |-> chars(val.a[k])], << Comma, Space >>)
                  \o << Quote >>
  ELSE IF val.t = "string" /\ (includes(chars(val.s), Comma) \/ includes(chars(val.s), Quote))
  THEN << Quote >> \o doubleQuotes(chars(val.s)) \o << Quote >>
  ELSE IF truthy(val) THEN chars(val.s)
  ELSE << >>

\* buildCsvExport: the header of labels and one row per response, the fields
\* joined with commas and the rows with line breaks; the text as characters.
buildCsvExport(survey, all) ==
  LET headers == [i \in 1..Len(survey.questions) |-> chars(survey.questions[i].label)]
      rows == [k \in 1..Len(all) |->
                 [i \in 1..Len(survey.questions) |-> csvField(answerAt(all[k], i))]]
  IN joinBy(<< joinBy(headers, << Comma >>) >> \o
            [k \in 1..Len(rows) |-> joinBy(rows[k], << Comma >>)], << Newline >>)

\* getResponses(surveyId): (await store.get(surveyId)) || []
getResponses(surveyId) == orEmpty(get(responses, surveyId))

\* The read-only handlers go on to await getResponses(surveyId).
toGetResponses(r) == found(r, [r EXCEPT !.pc = "getResponses"])

\* handleExport: only the creator may export; the CSV goes to the channel.
handleExport_decide(r) ==
  found(r, IF r.user # r.survey[1].createdBy THEN finish(r, "forbidden", NoOut)
           ELSE [r EXCEPT !.pc = "getResponses"])

handleExport_getSurvey(p) ==
  /\ canBegin(p)
  /\ \E user \in Users, sid \in CommandArgs :
       LET r == lookup("export", user, sid)
       IN procs' = [procs EXCEPT ![p] = handleExport_decide(r)]
  /\ started' = started + 1
  /\ UNCHANGED << surveys, responses, tracking, now, authors, appended, marked >>

handleExport_make(r, all) ==
  [NoOut EXCEPT !.to = "channel", !.csv = buildCsvExport(r.survey[1], all)]

handleExport_getResponses(p) ==
  /\ procs[p].kind = "export" /\ procs[p].pc = "getResponses"
  /\ LET r == procs[p]
     IN procs' = [procs EXCEPT ![p] =
          finish(r, "exported", handleExport_make(r, getResponses(r.sid)))]
  /\ UNCHANGED << surveys, responses, tracking, started, now, authors, appended, marked >>

\* list_export: the CSV goes to the user who pressed the button.
list_export_getSurvey(p) ==
  /\ canBegin(p)
  /\ \E user \in Users, sid \in SurveyIds :
       LET r == lookup("list_export", user, sid)
       IN procs' = [procs EXCEPT ![p] = toGetResponses(r)]
  /\ started' = started + 1
  /\ UNCHANGED << surveys, responses, tracking, now, authors, appended, marked >>

list_export_make(r, all) ==
  [NoOut EXCEPT !.to = r.user, !.csv = buildCsvExport(r.survey[1], all)]

list_export_getResponses(p) ==
  /\ procs[p].kind = "list_export" /\ procs[p].pc = "getResponses"
  /\ LET r == procs[p]
     IN procs' = [procs EXCEPT ![p] =
          finish(r, "exported", list_export_make(r, getResponses(r.sid)))]
  /\ UNCHANGED << surveys, responses, tracking, started, now, authors, appended, marked >>

\* handleResults: isAdmin = userId === survey.createdBy, ephemeral to the user.
handleResults_getSurvey(p) ==
  /\ canBegin(p)
  /\ \E user \in Users, sid \in CommandArgs :
       LET r == lookup("results", user, sid)
       IN procs' = [procs EXCEPT ![p] = toGetResponses(r)]
  /\ started' = started + 1
  /\ UNCHANGED << surveys, responses, tracking, now, authors, appended, marked >>

handleResults_make(r, all) ==
  LET isAdmin == r.user = r.survey[1].createdBy
  IN [NoOut EXCEPT !.to = r.user, !.isAdmin = isAdmin,
        !.blocks = buildResultsBlocks(r.survey[1], all, isAdmin, FALSE)]

handleResults_getResponses(p) ==
  /\ procs[p].kind = "results" /\ procs[p].pc = "getResponses"
  /\ LET r == procs[p]
     IN procs' = [procs EXCEPT ![p] =
          finish(r, "results", handleResults_make(r, getResponses(r.sid)))]
  /\ UNCHANGED << surveys, responses, tracking, started, now, authors, appended, marked >>

\* list_results: isAdmin: true, sent to the user who pressed the button.
list_results_getSurvey(p) ==
  /\ canBegin(p)
  /\ \E user \in Users, sid \in SurveyIds :
       LET r == lookup("list_results", user, sid)
       IN procs' = [procs EXCEPT ![p] = toGetResponses(r)]
  /\ started' = started + 1
  /\ UNCHANGED << surveys, responses, tracking, now, authors, appended, marked >>

list_results_make(r, all) ==
  [NoOut EXCEPT !.to = r.user, !.isAdmin = TRUE,
     !.blocks = buildResultsBlocks(r.survey[1], all, TRUE, FALSE)]

list_results_getResponses(p) ==
  /\ procs[p].kind = "list_results" /\ procs[p].pc = "getResponses"
  /\ LET r == procs[p]
     IN procs' = [procs EXCEPT ![p] =
          finish(r, "results", list_results_make(r, getResponses(r.sid)))]
  /\ UNCHANGED << surveys, responses, tracking, started, now, authors, appended, marked >>

\* handleShare: isAdmin: false, isShare: true, posted to the channel.
handleShare_getSurvey(p) ==
  /\ canBegin(p)
  /\ \E user \in Users, sid \in CommandArgs :
       LET r == lookup("share", user, sid)
       IN procs' = [procs EXCEPT ![p] = toGetResponses(r)]
  /\ started' = started + 1
  /\ UNCHANGED << surveys, responses, tracking, now, authors, appended, marked >>

handleShare_make(r, all) ==
  [NoOut EXCEPT !.to = "channel", !.isShare = TRUE,
     !.blocks = buildResultsBlocks(r.survey[1], all, FALSE, TRUE)]

handleShare_getResponses(p) ==
  /\ procs[p].kind = "share" /\ procs[p].pc = "getResponses"
  /\ LET r == procs[p]
     IN procs' = [procs EXCEPT ![p] =
          finish(r, "shared", handleShare_make(r, getResponses(r.sid)))]
  /\ UNCHANGED << surveys, responses, tracking, started, now, authors, appended, marked >>

\* ------------------------------------------------- store.js called directly

\* hasUserResponded(surveyId, userId) called on its own: one read, and the
\* result handed back.
call_hasUserResponded(p) ==
  /\ canBegin(p)
  /\ \E user \in Users, sid \in SurveyIds :
       LET r == begin("hasUserResponded", user, sid)
           set == orEmpty(get(tracking, sid))
       IN procs' = [procs EXCEPT ![p] =
            finish([r EXCEPT !.seen = hasUserResponded(set, sid, user)],
                   "returned", NoOut)]
  /\ started' = started + 1
  /\ UNCHANGED << surveys, responses, tracking, now, authors, appended, marked >>

\* markUserResponded(surveyId, userId) called on its own
call_markUserResponded(p) ==
  /\ canBegin(p)
  /\ \E user \in Users, sid \in SurveyIds :
       procs' = [procs EXCEPT ![p] =
         [begin("markUserResponded", user, sid) EXCEPT !.pc = "markUserResponded_get"]]
  /\ started' = started + 1
  /\ UNCHANGED << surveys, responses, tracking, now, authors, appended, marked >>

\* getSurvey(id) called on its own: one read, and the result handed back.
call_getSurvey(p) ==
  /\ canBegin(p)
  /\ \E user \in Users, sid \in SurveyIds :
       procs' = [procs EXCEPT ![p] =
         finish([begin("getSurvey", user, sid) EXCEPT !.ret = get(surveys, sid)],
                "returned", NoOut)]
  /\ started' = started + 1
  /\ UNCHANGED << surveys, responses, tracking, now, authors, appended, marked >>

\* closeSurvey(id) called on its own
call_closeSurvey(p) ==
  /\ canBegin(p)
  /\ \E user \in Users, sid \in SurveyIds :
       procs' = [procs EXCEPT ![p] =
         [begin("closeSurvey", user, sid) EXCEPT !.pc = "updateSurvey_get"]]
  /\ started' = started + 1
  /\ UNCHANGED << surveys, responses, tracking, now, authors, appended, marked >>

\* What a caller may hand to createSurvey: the handler's fields, and the same
\* with a status, a responseCount, a createdAt and an id of the caller's own.
handlerSpec(user) ==
  [title |-> "Pulse", createdBy |-> user,
   questions |-> CHOOSE q \in QuestionLists : TRUE,
   settings |-> [showResults |-> FALSE, shareFreetext |-> FALSE]]
CallerSpecs(user) ==
  { handlerSpec(user),
    spread(handlerSpec(user),
           [status |-> "closed", responseCount |-> 7, createdAt |-> 99]),
    spread(handlerSpec(user),
           [status |-> "closed", responseCount |-> 7, createdAt |-> 99,
            id |-> "mine"]) }

\* createSurvey(survey) called on its own: the record is stored under the
\* generated id and handed back.
call_createSurvey(p) ==
  /\ canBegin(p)
  /\ \E user \in Users, id \in freshIds, createdAt \in clock :
     \E survey \in CallerSpecs(user) :
       LET record == createRecord(id, survey, createdAt)
       IN /\ surveys' = setJSON(surveys, id, record)
          /\ now' = createdAt
          /\ procs' = [procs EXCEPT ![p] =
               finish([begin("createSurvey", user, id) EXCEPT
                         !.ret = << record >>, !.wrote = 1],
                      "returned", NoOut)]
  /\ started' = started + 1
  /\ UNCHANGED << responses, tracking, authors, appended, marked >>

\* createSurvey(survey) called on its own, the generated id being any value
\* randomUUID can give: the code does not look whether the id is in use.
call_createSurvey_anyId(p) ==
  /\ canBegin(p)
  /\ \E user \in Users, id \in randomUUID, createdAt \in clock :
     \E survey \in CallerSpecs(user) :
       LET record == createRecord(id, survey, createdAt)
       IN /\ surveys' = setJSON(surveys, id, record)
          /\ now' = createdAt
          /\ procs' = [procs EXCEPT ![p] =
               finish([begin("createSurvey", user, id) EXCEPT
                         !.ret = << record >>, !.wrote = 1],
                      "returned", NoOut)]
  /\ started' = started + 1
  /\ UNCHANGED << responses, tracking, authors, appended, marked >>

\* addSurveyToUserIndex(userId, surveyId) called on its own, for any id
call_addSurveyToUserIndex(p) ==
  /\ canBegin(p)
  /\ \E user \in Users, sid \in SurveyIds :
       procs' = [procs EXCEPT ![p] =
         [begin("addSurveyToUserIndex", user, sid) EXCEPT
            !.pc = "addSurveyToUserIndex_get"]]
  /\ started' = started + 1
  /\ UNCHANGED << surveys, responses, tracking, now, authors, appended, marked >>

\* getUserSurveys returns surveys.filter(Boolean).sort(...)
getUserSurveys_return(r) ==
  finish([r EXCEPT !.ret = << sortNewestFirst(filterBoolean(r.results)) >>],
         "returned", NoOut)

\* getUserSurveys(userId): ids = (await store.get(key)) || []; a store.get is
\* then issued for every id at once.
getUserSurveys_get(p) ==
  /\ canBegin(p)
  /\ \E user \in Users :
       LET ids == orEmpty(get(surveys, userKey(user)))
           r == [begin("getUserSurveys", user, "") EXCEPT
                   !.ids = ids, !.results = [i \in 1..Len(ids) |-> << >>],
                   !.pending = 1..Len(ids), !.pc = "getUserSurveys_all"]
       IN procs' = [procs EXCEPT ![p] =
            IF ids = << >> THEN getUserSurveys_return(r) ELSE r]
  /\ started' = started + 1
  /\ UNCHANGED << surveys, responses, tracking, now, authors, appended, marked >>

\* Promise.all(ids.map(id => store.get(id))): the lookups complete one by one
\* in any order, each result at the position of its id; after the last one the
\* function returns.
getUserSurveys_all(p) ==
  /\ procs[p].pc = "getUserSurveys_all"
  /\ \E i \in procs[p].pending :
       LET r == [procs[p] EXCEPT !.results[i] = get(surveys, procs[p].ids[i]),
                                 !.pending = @ \ {i}]
       IN procs' = [procs EXCEPT ![p] =
            IF r.pending = {} THEN getUserSurveys_return(r) ELSE r]
  /\ UNCHANGED << surveys, responses, tracking, started, now, authors, appended, marked >>

\* The lines typed into the questions field of the creation modal: plain, with
\* a marker in either case, with blanks around, blank, with both markers, with
\* a marker twice, and a marker alone.
QuestionLines ==
  { << "Rate" >>,
    << "Which", Space, "(multi-select)" >>,
    << "Pick", "(Multi-Select)", Space, "one" >>,
    << "Why", Space, "(free-text)" >>,
    << Space, "Say", Space, Space, "(FREE-TEXT)", Space >>,
    << >>,
    << Space >>,
    << "Both", Space, "(free-text)", Space, "(multi-select)" >>,
    << "Twice", Space, "(multi-select)", Space, "(multi-select)" >>,
    << "(free-text)" >> }

\* The lines typed into the options field: well-formed ones for the questions 1
\* and 2, and lines the pattern does not match.
OptionLines ==
  { << "Q", "1", ":", Space, "A", ",", Space, "B" >>,
    << "q", "2", Space, ":", "C" >>,
    << Space, "Q", "2", ":", Space, "A", ",", "B", Space, ",", Space, "C", Space, "D" >>,
    << "Q", "1", ":", "D" >>,
    << "Q", "0", "2", ":", "E" >>,
    << "2", ":", "A" >>,
    << "Q", ":", "A" >>,
    << "Q", "1", ":" >>,
    << "Q", "1", "A" >>,
    << >> }

\* The texts of at most MaxLines lines, the lines joined by newlines.
RECURSIVE joinLines(_)
joinLines(lines) ==
  IF Len(lines) = 0 THEN << >>
  ELSE IF Len(lines) = 1 THEN lines[1]
  ELSE lines[1] \o << Newline >> \o joinLines(Tail(lines))
Texts(lineSet) ==
  UNION { {joinLines(ls) : ls \in [1..n -> lineSet]} : n \in 0..MaxLines }

\* parseQuestions(rawQuestions, rawOptions) called on its own
call_parseQuestions(p) ==
  /\ canBegin(p)
  /\ \E rawQuestions \in Texts(QuestionLines), rawOptions \in Texts(OptionLines) :
       procs' = [procs EXCEPT ![p] =
         finish([begin("parseQuestions", "", "") EXCEPT
                   !.args = << rawQuestions, rawOptions >>,
                   !.ret = << parseQuestions(rawQuestions, rawOptions) >>],
                "returned", NoOut)]
  /\ started' = started + 1
  /\ UNCHANGED << surveys, responses, tracking, now, authors, appended, marked >>

\* What the stored answer of a scale question can be: the value of a rating,
\* "0", a string that is no number, or nothing.
ScaleAnswers == { Str(v) : v \in NumericStrings \cup {"n/a"} } \cup {Undef}

\* A survey of the given questions, and the stored responses that hold the
\* given answers to its one question.
surveyOf(questions) ==
  [id |-> "s1", title |-> "Pulse", questions |-> questions, createdBy |-> "U1",
   settings |-> [showResults |-> TRUE, shareFreetext |-> FALSE],
   status |-> "open", responseCount |-> 0, createdAt |-> 0]
responsesOf(answers) == [k \in 1..Len(answers) |-> << answers[k] >>]

\* buildResultsBlocks(survey, responses) called on its own, defaults for
\* isAdmin and isShare: the invocation once it has returned
resultsOf(q, answers) ==
  finish([begin("buildResultsBlocks", "", "") EXCEPT
            !.args = << q, answers >>,
            !.ret = << buildResultsBlocks(surveyOf(<< q >>), responsesOf(answers),
                                          FALSE, FALSE) >>],
         "returned", NoOut)

\* What the stored answer of a multi-select question can be: the values of
\* the selected options in the order they were selected, or nothing.
MultiAnswers ==
  { Arr(a) : a \in { << "A" >>, << "B" >>, << "2" >>, << "A", "B" >>, << "B", "A" >>,
                      << "B", "2" >>, << "2", "1" >> } } \cup {Undef}

\* the results of a multi-select question
multiResults(p) ==
  /\ canBegin(p)
  /\ \E answers \in UpTo(MultiAnswers, MaxResponses) :
       procs' = [procs EXCEPT ![p] =
         resultsOf([label |-> "Pick", type |-> "multi-select",
                    options |-> << "A", "B", "2", "1" >>], answers)]
  /\ started' = started + 1
  /\ UNCHANGED << surveys, responses, tracking, now, authors, appended, marked >>

\* What the stored answers to a free-text and to a multi-select question can
\* be, for buildCsvExport: any text of up to MaxChars characters, null for the
\* field left empty, or nothing; a selection, or nothing.
CsvRows ==
  ({ Str(join(cs)) : cs \in UpTo(Chars, MaxChars) } \cup {JNull, Undef})
  \X { Arr(<< "A" >>), Arr(<< "A", "B" >>), Undef }

\* buildCsvExport(survey, responses) called on its own
call_buildCsvExport(p) ==
  /\ canBegin(p)
  /\ \E all \in UpTo(CsvRows, MaxRows) :
       LET questions == << [label |-> "Why", type |-> "free-text"],
                           [label |-> "Pick", type |-> "multi-select",
                            options |-> << "A", "B" >>] >>
       IN procs' = [procs EXCEPT ![p] =
            finish([begin("buildCsvExport", "", "") EXCEPT
                      !.args = << questions, all >>,
                      !.ret = << buildCsvExport(surveyOf(questions), all) >>],
                   "returned", NoOut)]
  /\ started' = started + 1
  /\ UNCHANGED << surveys, responses, tracking, now, authors, appended, marked >>

\* the results of a scale question
scaleResults(p) ==
  /\ canBegin(p)
  /\ \E answers \in UpTo(ScaleAnswers, MaxResponses) :
       procs' = [procs EXCEPT ![p] =
         resultsOf([label |-> "Rate", type |-> "scale"], answers)]
  /\ started' = started + 1
  /\ UNCHANGED << surveys, responses, tracking, now, authors, appended, marked >>

\* ------------------------------------------------------------ storage faults

\* The store's functions called on their own, and the requests of the handlers.
DirectKinds == {"hasUserResponded", "markUserResponded", "getSurvey", "closeSurvey",
                "createSurvey", "addSurveyToUserIndex", "getUserSurveys"}
HandlerKinds == {"submit", "create", "close", "list_close", "export",
                 "list_export", "results", "list_results", "share"}

\* (variant: the store function catches the rejection and answers as for a
\* missing key)
onFault_asMiss(r) ==
  [finish(r, IF r.survey = << >> THEN "not_found" ELSE "results",
          [NoOut EXCEPT !.to = r.user,
             !.blocks = IF r.survey = << >> THEN << >>
                        ELSE buildResultsBlocks(r.survey[1], << >>, FALSE, FALSE)])
     EXCEPT !.faulted = TRUE]

\* A store.get or store.setJSON awaited by the invocation rejects.  No function
\* of store.js catches, so the caller of a direct call sees the rejection; in a
\* handler it reaches the `catch (err)` of the entry point, which answers
\* "Something went wrong".
onFault(r) ==
  [finish(r, IF r.kind \in DirectKinds THEN "threw" ELSE "error", NoOut)
     EXCEPT !.faulted = TRUE]

\* The store call an invocation is waiting for rejects: nothing is written.
fault(p) ==
  /\ procs[p].pc \notin {"idle", "done"}
  /\ procs' = [procs EXCEPT ![p] = onFault(procs[p])]
  /\ UNCHANGED << surveys, responses, tracking, started, now, authors, appended, marked >>

\* The first store call of an invocation rejects.
fault_first(p) ==
  /\ canBegin(p)
  /\ \E kind \in DirectKinds \cup HandlerKinds, user \in Users, sid \in SurveyIds :
       procs' = [procs EXCEPT ![p] = onFault(begin(kind, user, sid))]
  /\ started' = started + 1
  /\ UNCHANGED << surveys, responses, tracking, now, authors, appended, marked >>

\* ------------------------------------------------------------ specification

Step(p) ==
    \/ handleSurveyResponseSubmit_getSurvey(p)
    \/ handleSurveyResponseSubmit_hasUserResponded(p)
    \/ addResponse_get(p)
    \/ addResponse_set(p)
    \/ addResponse_getSurvey(p)
    \/ addResponse_setSurvey(p)
    \/ markUserResponded_get(p)
    \/ markUserResponded_set(p)
    \/ handleSurveyResponseSubmit_getResponses(p)
    \/ createSurvey(p)
    \/ addSurveyToUserIndex_get(p)
    \/ addSurveyToUserIndex_set(p)
    \/ handleClose_getSurvey(p)
    \/ list_close_getSurvey(p)
    \/ updateSurvey_get(p)
    \/ updateSurvey_set(p)
    \/ handleExport_getSurvey(p)
    \/ handleExport_getResponses(p)
    \/ list_export_getSurvey(p)
    \/ list_export_getResponses(p)
    \/ handleResults_getSurvey(p)
    \/ handleResults_getResponses(p)
    \/ list_results_getSurvey(p)
    \/ list_results_getResponses(p)
    \/ handleShare_getSurvey(p)
    \/ handleShare_getResponses(p)
    \/ Return(p)

\* Stateless invocations, any number of them in flight at once.
Next == \E p \in Procs : Step(p)

Spec == Init /\ [][Next]_vars

\* A sequential execution: one invocation at a time, each run to its end before
\* the next begins; the store's functions may also be called directly.
SeqNext ==
  \/ Step("p1")
  \/ call_hasUserResponded("p1")
  \/ call_markUserResponded("p1")
  \/ call_getSurvey("p1")
  \/ call_closeSurvey("p1")
  \/ call_createSurvey("p1")
  \/ call_addSurveyToUserIndex("p1")
  \/ getUserSurveys_get("p1")
  \/ getUserSurveys_all("p1")

SeqSpec == Init /\ [][SeqNext]_vars

\* A sequential execution in which any store call may reject.
FaultNext ==
  \/ SeqNext
  \/ fault("p1")
  \/ fault_first("p1")

FaultSpec == Init /\ [][FaultNext]_vars

\* parseQuestions alone: a pure function applied to one input after another.
ParseNext ==
  \/ call_parseQuestions("p1")
  \/ Return("p1")

ParseSpec == Init /\ [][ParseNext]_vars

\* buildResultsBlocks alone, applied to the answers to a scale question.
ScaleNext ==
  \/ scaleResults("p1")
  \/ Return("p1")

ScaleSpec == Init /\ [][ScaleNext]_vars

\* buildResultsBlocks alone, applied to the answers to a multi-select question.
MultiNext ==
  \/ multiResults("p1")
  \/ Return("p1")

MultiSpec == Init /\ [][MultiNext]_vars

\* A sequential execution of creations and submissions in which the generated
\* id is any value.  The surveys created here have showResults off, so a
\* submission ends with markUserResponded.
IdNext ==
  \/ call_createSurvey_anyId("p1")
  \/ handleSurveyResponseSubmit_getSurvey("p1")
  \/ handleSurveyResponseSubmit_hasUserResponded("p1")
  \/ addResponse_get("p1")
  \/ addResponse_set("p1")
  \/ addResponse_getSurvey("p1")
  \/ addResponse_setSurvey("p1")
  \/ markUserResponded_get("p1")
  \/ markUserResponded_set("p1")
  \/ Return("p1")

IdSpec == Init /\ [][IdNext]_vars

\* buildCsvExport alone.
CsvNext ==
  \/ call_buildCsvExport("p1")
  \/ Return("p1")

CsvSpec == Init /\ [][CsvNext]_vars

\* ------------------------------------------------------------------ claims

inFlight(p) == procs[p].pc \notin {"idle", "done"}
quiescent == \A p \in Procs : ~inFlight(p)
stored(store, key) == orEmpty(get(store, key))
surveyIds == {s \in SurveyIds : s \in DOMAIN surveys}

\* C1: for every survey and every user, the stored response sequence holds at
\* most one response submitted by that user, under any interleaving of submit
\* invocations.
C1_OnePerUser ==
  \A s \in SurveyIds, u \in Users : count(stored(authors, s), u) <= 1

\* C2: no append is dropped: once k addResponse calls on a survey have
\* completed and none is under way, the stored sequence has length k.
addResponseUnderWay(s) ==
  \E p \in Procs :
    /\ procs[p].sid = s
    /\ procs[p].pc \in {"addResponse_get", "addResponse_set",
                        "addResponse_getSurvey", "addResponse_setSurvey"}
C2_NoAppendDropped ==
  \A s \in SurveyIds :
    ~addResponseUnderWay(s) => Len(stored(responses, s)) = appended[s]

\* C3: whenever no invocation is in flight, every Survey's responseCount equals
\* the length of its stored response sequence.
C3_CountMatches ==
  quiescent =>
    \A s \in surveyIds : surveys[s].responseCount = Len(stored(responses, s))

\* C4: status is monotonic: a stored Survey that is closed is closed in every
\* later state.
C4_ClosedStaysClosed ==
  [][\A s \in surveyIds : surveys[s].status = "closed" => surveys'[s].status = "closed"]_vars

\* C5: stored responses do not depend on who submitted them: every stored
\* response is the answers extracted from some form by the survey's questions,
\* two submissions of the same form by any two users append the same content,
\* and the tracking store holds digests of (surveyId, userId) only, never a
\* user id.
C5_Anonymous ==
  /\ \A s \in surveyIds : \A i \in 1..Len(stored(responses, s)) :
       stored(responses, s)[i] \in
         {extractAnswers(surveys[s].questions, v) : v \in FormValues}
  /\ \A p, q \in Procs :
       /\ procs[p].pc = "addResponse_set" /\ procs[q].pc = "addResponse_set"
       /\ procs[p].sid = procs[q].sid /\ procs[p].values = procs[q].values
       => procs[p].existing[Len(procs[p].existing)]
            = procs[q].existing[Len(procs[q].existing)]
  /\ \A s \in SurveyIds : \A i \in 1..Len(stored(tracking, s)) :
       /\ stored(tracking, s)[i] \in {hashOf(s, u) : u \in Users}
       /\ stored(tracking, s)[i] \notin Users

\* C5 witness: two users have submitted the same form to one survey; both
\* responses and both digests are stored.
C5_Witness ==
  \E s \in surveyIds :
    /\ Len(stored(responses, s)) = 2 /\ Len(stored(tracking, s)) = 2
    /\ stored(authors, s)[1] # stored(authors, s)[2]
    /\ stored(responses, s)[1] = stored(responses, s)[2]

\* The free-text answers of a response set, and whether a rendering shows one.
freeTexts(survey, all) ==
  {all[k][i] : k \in 1..Len(all),
               i \in {j \in 1..Len(survey.questions) :
                        survey.questions[j].type = "free-text"}}
    \ {Undef, JNull, Str("")}
shows(blocks, v) ==
  \E b \in 1..Len(blocks) :
    \/ includes(blocks[b].texts, v)
    \/ blocks[b].label = v.s \/ blocks[b].title = v.s
    \/ \E l \in 1..Len(blocks[b].lines) : blocks[b].lines[l].opt = v.s
countOnly(blocks) ==
  \A b \in 1..Len(blocks) : blocks[b].type # "free-text" /\ blocks[b].texts = << >>

\* C6: a rendering with isAdmin=false and isShare=true shows no free-text
\* answer, only counts, whatever the shareFreetext setting; so the post a share
\* command makes to the channel shows none.
C6_ShareNeverVerbatim ==
  /\ \A s \in surveyIds :
       LET blocks == buildResultsBlocks(surveys[s], stored(responses, s), FALSE, TRUE)
       IN /\ countOnly(blocks)
          /\ \A v \in freeTexts(surveys[s], stored(responses, s)) : ~shows(blocks, v)
  /\ \A p \in Procs :
       procs[p].kind = "share" /\ procs[p].outcome = "shared" =>
         /\ procs[p].out.to = "channel"
         /\ countOnly(procs[p].out.blocks)
         /\ \A s \in surveyIds :
              \A v \in freeTexts(surveys[s], stored(responses, s)) :
                ~shows(procs[p].out.blocks, v)

\* C6 witness: a share command has posted the results of a survey whose
\* shareFreetext setting is on and that has a free-text answer.
C6_Witness ==
  \E p \in Procs :
    /\ procs[p].kind = "share" /\ procs[p].outcome = "shared"
    /\ procs[p].survey[1].settings.shareFreetext
    /\ \E b \in 1..Len(procs[p].out.blocks) :
         /\ procs[p].out.blocks[b].type = "free-text-count-share"
         /\ procs[p].out.blocks[b].n >= 1

\* C7: with shareFreetext off, free-text answers are delivered to the creator
\* only: an invocation that delivers them verbatim (it rendered with
\* isAdmin=true) was requested by the survey's createdBy.
C7_VerbatimOnlyToCreator ==
  \A p \in Procs :
    (/\ procs[p].pc = "done"
     /\ ~countOnly(procs[p].out.blocks)
     /\ ~procs[p].survey[1].settings.shareFreetext)
    => /\ procs[p].out.isAdmin
       /\ procs[p].user = procs[p].survey[1].createdBy

\* C8: close and export take effect for the creator only: closeSurvey is called
\* and a CSV is produced only when the requesting user is createdBy; otherwise
\* the outcome is Forbidden and nothing is written.
C8_AdminOnly ==
  \A p \in Procs :
    procs[p].kind \in {"close", "list_close", "export", "list_export"} =>
      /\ (\/ procs[p].pc \in {"updateSurvey_get", "updateSurvey_set", "getResponses"}
          \/ procs[p].outcome \in {"closed", "exported"})
         => procs[p].user = procs[p].survey[1].createdBy
      /\ (/\ procs[p].pc = "done"
          /\ procs[p].survey # << >>
          /\ procs[p].user # procs[p].survey[1].createdBy)
         => procs[p].outcome = "forbidden" /\ procs[p].wrote = 0

\* C9: a submit invocation whose dedup check finds the digest of (surveyId,
\* userId) in the tracking set is rejected as already responded, and writes
\* nothing to any store, neither before nor by that step.
C9_RejectedBeforeAnyWrite ==
  [][\A p \in Procs :
       (/\ procs[p].kind = "submit" /\ procs[p].pc = "hasUserResponded"
        /\ includes(stored(tracking, procs[p].sid),
                    hashOf(procs[p].sid, procs[p].user))
        /\ procs'[p] # procs[p])
       => /\ procs'[p].pc = "done"
          /\ procs'[p].outcome = "already_responded"
          /\ procs[p].wrote = 0 /\ procs'[p].wrote = 0
          /\ stores' = stores]_vars

\* C9 witness: a submission has been rejected as already responded.
C9_Witness ==
  \E p \in Procs :
    /\ procs[p].kind = "submit" /\ procs[p].outcome = "already_responded"
    /\ includes(stored(tracking, procs[p].sid), hashOf(procs[p].sid, procs[p].user))

\* C10: in a sequential execution hasUserResponded(s, u) returns true exactly
\* when markUserResponded(s, u) has returned before, so false before any mark of
\* the pair, true after it, and untouched by marks of another user or survey;
\* and a markUserResponded for a pair already marked writes nothing and leaves
\* the digest set as it is.
C10_DedupSequential ==
  [][\A p \in Procs :
       /\ (procs'[p].pc = "done" /\ procs[p].pc = "idle"
           /\ procs'[p].kind = "hasUserResponded")
          => (procs'[p].seen <=> << procs'[p].sid, procs'[p].user >> \in marked)
       /\ (procs[p].pc = "hasUserResponded" /\ procs'[p] # procs[p])
          => ((procs'[p].pc = "done") <=> << procs[p].sid, procs[p].user >> \in marked)
       /\ (/\ procs[p].pc \in {"markUserResponded_get", "markUserResponded_set"}
           /\ << procs[p].sid, procs[p].user >> \in marked)
          => /\ tracking' = tracking
             /\ procs'[p].pc # "markUserResponded_set"
             /\ procs'[p].wrote = procs[p].wrote]_vars

\* C10 witness: markUserResponded was called for a pair already marked and
\* returned without a write; the set holds the one digest.
C10_Witness ==
  \E p \in Procs :
    /\ procs[p].kind = "markUserResponded" /\ procs[p].outcome = "marked"
    /\ procs[p].wrote = 0
    /\ Len(stored(tracking, procs[p].sid)) = 1

\* C11: dedup entries are never removed: once markUserResponded(s, u) has
\* returned, the digest of (s, u) is in the tracking set of s in every later
\* state, whatever markUserResponded calls for other users interleave with it.
C11_MarkedStays ==
  \A pair \in marked :
    includes(stored(tracking, pair[1]), hashOf(pair[1], pair[2]))

\* C12: getSurvey and closeSurvey (updateSurvey) on an id with no stored Survey
\* return null and do not raise; the update writes nothing: no record is
\* created for the id and every store is left as it was.
C12_NotFound ==
  [][\A p \in Procs :
       /\ (/\ procs[p].pc = "idle" /\ procs'[p].kind = "getSurvey"
           /\ procs'[p].sid \notin DOMAIN surveys)
          => /\ procs'[p].outcome = "returned" /\ procs'[p].ret = << >>
             /\ stores' = stores
       /\ (/\ procs[p].pc = "updateSurvey_get" /\ procs[p].kind = "closeSurvey"
           /\ procs[p].sid \notin DOMAIN surveys
           /\ procs'[p] # procs[p])
          => /\ procs'[p].outcome = "returned" /\ procs'[p].ret = << >>
             /\ procs'[p].wrote = 0
             /\ stores' = stores
             /\ procs[p].sid \notin DOMAIN surveys']_vars

\* C12 witness: closeSurvey was called for an id with no Survey and returned
\* null, while another Survey is stored.
C12_Witness ==
  \E p \in Procs :
    /\ procs[p].kind = "closeSurvey" /\ procs[p].outcome = "returned"
    /\ procs[p].ret = << >>
    /\ procs[p].sid \notin DOMAIN surveys
    /\ surveyIds # {}

\* C13: once a Survey is stored, its id, title, questions, createdBy, settings
\* and createdAt never change: every write of the count update of a submission
\* and of a close keeps them; only status and responseCount differ.
immutableFields(survey) ==
  << survey.id, survey.title, survey.questions, survey.createdBy, survey.settings,
     survey.createdAt >>
C14_IndexComplete ==
  quiescent =>
    \A s \in surveyIds :
      includes(stored(surveys, userKey(surveys[s].createdBy)), s)

\* A close request (command or button) is taken by invocation p for a survey
\* whose stored status is closed.
closeOfClosed(p) ==
  /\ procs[p].pc = "idle" /\ procs'[p].kind \in {"close", "list_close"}
  /\ procs'[p].sid \in surveyIds
  /\ surveys[procs'[p].sid].status = "closed"

\* C15 as stated: a close request on a survey already closed reports "already
\* closed", calls no closeSurvey and writes to no store, on both paths.
C15_AlreadyClosed ==
  [][\A p \in Procs :
       closeOfClosed(p) =>
         /\ procs'[p].pc = "done" /\ procs'[p].outcome = "already_closed"
         /\ procs'[p].wrote = 0 /\ stores' = stores]_vars

\* C15 amended: a close request on a survey already closed calls no closeSurvey
\* and writes to no store on both paths; it reports "already closed", except
\* that the command reports Forbidden to a user who is not the creator.
C15_AlreadyClosedOrForbidden ==
  [][\A p \in Procs :
       closeOfClosed(p) =>
         /\ procs'[p].pc = "done"
         /\ procs'[p].outcome =
              IF /\ procs'[p].kind = "close"
                 /\ procs'[p].user # surveys[procs'[p].sid].createdBy
              THEN "forbidden" ELSE "already_closed"
         /\ procs'[p].wrote = 0 /\ stores' = stores]_vars

\* C15 witness: the button of a closed survey has reported "already closed".
C15_Witness ==
  \E p \in Procs :
    /\ procs[p].kind = "list_close" /\ procs[p].outcome = "already_closed"
    /\ procs[p].sid \in surveyIds /\ surveys[procs[p].sid].status = "closed"

\* C16: a storage fault is never swallowed: the step in which a store call of
\* an invocation rejects ends the invocation, a direct call of a store function
\* with the rejection and a handler with its error answer; nothing is rendered
\* (no "not found", no "no responses", no result) and no store is written.
C16_FaultsPropagate ==
  [][\A p \in Procs :
       (procs'[p].faulted /\ ~procs[p].faulted) =>
         /\ procs'[p].pc = "done"
         /\ procs'[p].outcome =
              IF procs'[p].kind \in DirectKinds THEN "threw" ELSE "error"
         /\ procs'[p].out = NoOut /\ procs'[p].ret = << >>
         /\ stores' = stores]_vars

\* C16 witness: getResponses rejected in a results command on a survey that
\* has responses, and the command ended with the error answer.
C16_Witness ==
  \E p \in Procs :
    /\ procs[p].faulted /\ procs[p].kind = "results" /\ procs[p].survey # << >>
    /\ procs[p].outcome = "error"
    /\ Len(stored(responses, procs[p].sid)) >= 1

\* C17: createSurvey returns a record with status open and responseCount 0
\* (and its own createdAt) whatever the caller's argument holds, and has stored
\* that record under the generated id, so getSurvey of that id returns it.
C17_CreateSurvey ==
  [][\A p \in Procs :
       (/\ procs[p].pc = "idle" /\ procs'[p].kind = "createSurvey"
        /\ ~procs'[p].faulted)
       => /\ procs'[p].ret # << >>
          /\ procs'[p].ret[1].status = "open"
          /\ procs'[p].ret[1].responseCount = 0
          /\ procs'[p].ret[1].createdAt = now'
          /\ procs'[p].sid \notin DOMAIN surveys
          /\ get(surveys', procs'[p].sid) = procs'[p].ret]_vars

\* C17 witness: createSurvey has returned for an argument that held a status,
\* a responseCount and an id of the caller's.
C17_Witness ==
  \E p \in Procs :
    /\ procs[p].kind = "createSurvey" /\ procs[p].outcome = "returned"
    /\ procs[p].ret[1].id = "mine"
    /\ get(surveys, procs[p].sid) = procs[p].ret

\* C18: getUserSurveys returns exactly the records the ids of the user's index
\* resolve to: an id without a survey is dropped, nothing else is dropped or
\* added; the result is ordered newest first, records of equal createdAt in
\* index order, whatever the order in which the lookups complete.
resolved(ids) ==
  filterBoolean([i \in 1..Len(ids) |-> get(surveys, ids[i])])
createdAtIs(seq, t) ==
  LET at(x) == x.createdAt = t
  IN SelectSeq(seq, at)
C18_GetUserSurveys ==
  [][\A p \in Procs :
       (/\ procs'[p].kind = "getUserSurveys" /\ procs'[p].outcome = "returned"
        /\ procs[p].pc # "done")
       => LET out == procs'[p].ret[1]
              ids == orEmpty(get(surveys, userKey(procs'[p].user)))
          IN /\ procs'[p].ids = ids
             /\ Len(out) = Len(resolved(ids))
             /\ \A i, j \in 1..Len(out) :
                  i < j => out[i].createdAt >= out[j].createdAt
             /\ \A t \in 0..now :
                  createdAtIs(out, t) = createdAtIs(resolved(ids), t)]_vars

\* C18 witness: getUserSurveys has returned two surveys of one createdAt.
C18_Witness ==
  \E p \in Procs :
    /\ procs[p].kind = "getUserSurveys" /\ procs[p].outcome = "returned"
    /\ Len(procs[p].ret[1]) = 2
    /\ procs[p].ret[1][1].createdAt = procs[p].ret[1][2].createdAt
    /\ procs[p].ret[1][1] # procs[p].ret[1][2]

\* The calls of parseQuestions that have returned: the questions lines and the
\* option lines of the input (trimmed, blank ones left out) and the result.
parsed ==
  { [lines |-> nonBlankLines(procs[p].args[1]),
     optionLines |-> nonBlankLines(procs[p].args[2]),
     questions |-> procs[p].ret[1]] :
    p \in {q \in Procs : procs[q].kind = "parseQuestions" /\ procs[q].pc = "done"} }

\* The readings of a line as "Q<digits> : <rest>": the number and the rest.
wellFormed(line) ==
  LET L == Len(line)
      readings ==
        { t \in (2..L) \X (3..L) \X (4..L) :
            /\ line[1] \in {"Q", "q"}
            /\ t[1] < t[2] /\ t[2] < t[3]
            /\ \A d \in 2..t[1] : line[d] \in Digits
            /\ \A b \in (t[1] + 1)..(t[2] - 1) : line[b] = Space
            /\ line[t[2]] = ":"
            /\ \A b \in (t[2] + 1)..(t[3] - 1) : line[b] = Space
            /\ line[t[3]] # Space }
  IN { << parseInt(SubSeq(line, 2, t[1])), SubSeq(line, t[3], L) >> : t \in readings }
numberOf(line) == {w[1] : w \in wellFormed(line)}

\* C19: a multi-select question at position n has the options of the last
\* well-formed option line "Qn: a, b, c", trimmed and in order; without such a
\* line it has the three placeholders; a malformed line changes nothing and
\* the call returns.
C19_OptionsByPosition ==
  \A c \in parsed :
    \A n \in 1..Len(c.questions) :
      c.questions[n].type = "multi-select" =>
        LET mine == {l \in 1..Len(c.optionLines) : n \in numberOf(c.optionLines[l])}
            last == CHOOSE l \in mine : \A m \in mine : m <= l
            rest == (CHOOSE w \in wellFormed(c.optionLines[last]) : w[1] = n)[2]
            parts == split(rest, ",")
        IN IF mine = {}
           THEN c.questions[n].options = DefaultOptions
           ELSE /\ Len(c.questions[n].options) = Len(parts)
                /\ \A i \in 1..Len(parts) :
                     c.questions[n].options[i] = join(trim(parts[i]))

\* C19 witness: question 2 is multi-select and took the three options of the
\* line "Q2: A,B , C D", while a malformed line was passed over.
C19_Witness ==
  \E c \in parsed :
    /\ Len(c.questions) = 2 /\ c.questions[2].type = "multi-select"
    /\ c.questions[2].options = << "A", "B", "C D" >>
    /\ \E l \in 1..Len(c.optionLines) : wellFormed(c.optionLines[l]) = {}

\* The strings a line can leave once its marker text is stripped: every token
\* that is neither marker nor blank is kept, in order, and no marker is.
kth(S, k) == CHOOSE x \in S : Cardinality({y \in S : y <= x}) = k
pick(line, S) == [k \in 1..Cardinality(S) |-> line[kth(S, k)]]
stripped(line) ==
  LET markers == MultiMarkers \cup FreeMarkers
  IN { join(pick(line, S)) :
         S \in { S \in SUBSET (1..Len(line)) :
                  /\ \A i \in S : line[i] \notin markers
                  /\ \A i \in 1..Len(line) :
                       line[i] \notin markers \cup {Space} => i \in S } }

\* C20: parseQuestions yields one Question per non-blank line, in line order;
\* a line with a (multi-select) marker, in any case, is multi-select, another
\* line with a (free-text) marker is free-text, any other line is scale; the
\* marker text is stripped from the label; only a multi-select question has
\* options.
C20_OnePerLine ==
  \A c \in parsed :
    /\ Len(c.questions) = Len(c.lines)
    /\ \A i \in 1..Len(c.lines) :
         LET line == c.lines[i]
             q == c.questions[i]
         IN /\ q.type = IF test(MultiMarkers, line) THEN "multi-select"
                         ELSE IF test(FreeMarkers, line) THEN "free-text"
                         ELSE "scale"
            /\ q.label \in stripped(line)
            /\ ("options" \in DOMAIN q) <=> (q.type = "multi-select")

\* The calls of buildResultsBlocks that have returned for a question of the
\* given type with at least one response: the answers and the question's block.
rendered(type) ==
  { [answers |-> procs[p].args[2], block |-> procs[p].ret[1][3]] :
    p \in {q \in Procs : /\ procs[q].kind = "buildResultsBlocks"
                         /\ procs[q].pc = "done"
                         /\ procs[q].args[1].type = type
                         /\ Len(procs[q].args[2]) > 0} }

\* C21: of the answers to a scale question exactly those present, numeric and
\* not zero are kept; the block reports their number, their mean rounded to
\* one decimal (half up) and how many of them are 1, 2, 3, 4 and 5.  For
\* [5,5,4,3,0]: 4 answers, 4.3, distribution 5:2, 4:1, 3:1, 2:0, 1:0.
ratingOf(v) == CHOOSE n \in 0..6 : v.t = "string" /\ v.s = ToString(n)
isRating(v) == v.t = "string" /\ v.s \in {"1", "2", "3", "4", "5", "6"}
selections(answers) ==
  flat([k \in 1..Len(answers) |->
          IF answers[k].t = "array" THEN answers[k].a ELSE << >>])
firstSeen(all, opt) == CHOOSE k \in 1..Len(all) : all[k] = opt /\ \A j \in 1..(k - 1) : all[j] # opt
C22_MultiCounts ==
  \A c \in rendered("multi-select") :
    LET all == selections(c.answers)
        lines == c.block.lines
        total == Len(c.answers)
    IN /\ {lines[k].opt : k \in 1..Len(lines)} = {all[k] : k \in 1..Len(all)}
       /\ \A k \in 1..Len(lines) :
            /\ lines[k].c = Cardinality({j \in 1..Len(all) : all[j] = lines[k].opt})
            /\ (2 * lines[k].pct - 1) * total <= 200 * lines[k].c
            /\ 200 * lines[k].c < (2 * lines[k].pct + 1) * total
       /\ \A j, k \in 1..Len(lines) :
            j < k => \/ lines[j].c > lines[k].c
                     \/ /\ lines[j].c = lines[k].c
                        /\ firstSeen(all, lines[j].opt) < firstSeen(all, lines[k].opt)

\* The example of the claim: two responses selecting [A, B] and one selecting
\* [A] give A with count 2 (67%) and B with count 1 (33%).
C22_Example ==
  \A c \in rendered("multi-select") :
    c.answers = << Arr(<< "A", "B" >>), Arr(<< "A", "B" >>), Arr(<< "A" >>) >> =>
      /\ c.block.lines[1] = [opt |-> "A", c |-> 2, pct |-> 67, barLen |-> 7]
      /\ c.block.lines[2] = [opt |-> "B", c |-> 1, pct |-> 33, barLen |-> 3]

\* A CSV parser: fields end at a comma and rows at a line break, except
\* between double quotes, where two double quotes read as one.
RECURSIVE scan(_, _, _, _, _)
scan(text, mode, field, row, rows) ==
  IF text = << >> THEN Append(rows, Append(row, field))
  ELSE LET c == Head(text)
           rest == Tail(text)
       IN CASE mode = "start" /\ c = Quote -> scan(rest, "quoted", field, row, rows)
            [] mode = "quoted" /\ c = Quote -> scan(rest, "closed", field, row, rows)
            [] mode = "quoted" /\ c # Quote -> scan(rest, "quoted", Append(field, c), row, rows)
            [] mode = "closed" /\ c = Quote ->
                 scan(rest, "quoted", Append(field, Quote), row, rows)
            [] mode # "quoted" /\ c = Comma ->
                 scan(rest, "start", << >>, Append(row, field), rows)
            [] mode # "quoted" /\ c = Newline ->
                 scan(rest, "start", << >>, << >>, Append(rows, Append(row, field)))
            [] OTHER -> scan(rest, "plain", Append(field, c), row, rows)
parseCsv(text) == scan(text, "start", << >>, << >>, << >>)

\* The calls of buildCsvExport that have returned.
exported ==
  { [questions |-> procs[p].args[1], all |-> procs[p].args[2], csv |-> procs[p].ret[1]] :
    p \in {q \in Procs : procs[q].kind = "buildCsvExport" /\ procs[q].pc = "done"} }

\* C23: read back by a CSV parser, the export is the row of the labels and
\* then one row per response in stored order, each of one field per
\* question; the field of a string answer with a comma or a double quote in
\* it reads back as that string, and the field of a missing answer is empty.
C23_CsvRoundTrip ==
  \A e \in exported :
    LET rows == parseCsv(e.csv)
        n == Len(e.questions)
    IN /\ Len(rows) = 1 + Len(e.all)
       /\ rows[1] = [i \in 1..n |-> chars(e.questions[i].label)]
       /\ \A k \in 1..Len(e.all) :
            /\ Len(rows[k + 1]) = n
            /\ \A i \in 1..n :
                 LET v == e.all[k][i]
                 IN /\ v.t = "string" /\ (includes(chars(v.s), Comma)
                                          \/ includes(chars(v.s), Quote))
                         => rows[k + 1][i] = chars(v.s)
                    /\ v.t \in {"undefined", "null"} => rows[k + 1][i] = << >>

\* C24: a closed survey accepts no further responses: a submission that
\* starts when the stored survey is closed (the record it reads on arrival
\* says so) writes to no store, so it neither appends a response nor changes
\* responseCount.
C24_ClosedAcceptsNothing ==
  \A p \in Procs :
    (/\ procs[p].kind = "submit"
     /\ procs[p].survey # << >>
     /\ procs[p].survey[1].status = "closed")
    => procs[p].wrote = 0

\* C25: a submission checks, then appends, then marks: it starts to append
\* only from a dedup check that found no digest of its user, it starts to mark
\* only out of addResponse with its response written, and whenever a survey's
\* tracking set changes, the step is the tracking write of a submission to
\* that survey whose response write has completed.
C25_CheckAppendMark ==
  [][/\ \A p \in Procs :
          procs'[p].kind = "submit" /\ procs'[p].pc # procs[p].pc =>
            /\ procs'[p].pc = "addResponse_get" =>
                 /\ procs[p].pc = "hasUserResponded"
                 /\ ~includes(stored(tracking, procs[p].sid),
                              hashOf(procs[p].sid, procs[p].user))
            /\ procs'[p].pc = "addResponse_set" => procs[p].pc = "addResponse_get"
            /\ procs'[p].pc = "markUserResponded_get" =>
                 /\ procs[p].pc \in {"addResponse_getSurvey", "addResponse_setSurvey"}
                 /\ procs[p].wrote >= 1
            /\ procs'[p].pc = "markUserResponded_set" =>
                 procs[p].pc = "markUserResponded_get"
     /\ \A s \in SurveyIds :
          stored(tracking, s)' # stored(tracking, s) =>
            \E p \in Procs :
              /\ procs[p].kind = "submit" /\ procs[p].sid = s
              /\ procs[p].pc = "markUserResponded_set"
              /\ procs'[p].pc # procs[p].pc
              /\ procs[p].wrote >= 1
              /\ procs[p].existing # << >>
              /\ stored(tracking, s)' = procs[p].set]_vars

\* C25 witness: a submission has gone through check, append and mark, and the
\* digest of its user is in the tracking set.
C25_Witness ==
  \E p \in Procs :
    /\ procs[p].kind = "submit" /\ procs[p].pc = "done"
    /\ procs[p].outcome = "recorded"
    /\ procs[p].wrote >= 2
    /\ includes(stored(tracking, procs[p].sid), hashOf(procs[p].sid, procs[p].user))

\* C26: a failed submission can be retried: a submission that ended in the
\* error answer after a storage fault either wrote nothing or left its user
\* marked as responded, and with one invocation after another no survey ever
\* holds two responses of one user.
C26_NoDoubleOnRetry ==
  \A s \in SurveyIds, u \in Users : count(stored(authors, s), u) <= 1
C26_RetrySafe ==
  /\ \A p \in Procs :
       (procs[p].kind = "submit" /\ procs[p].pc = "done" /\ procs[p].outcome = "error")
       => \/ procs[p].wrote = 0
          \/ includes(stored(tracking, procs[p].sid), hashOf(procs[p].sid, procs[p].user))
  /\ C26_NoDoubleOnRetry

\* C27: survey ids are unique: the id a createSurvey call generates is the id
\* of no stored survey, so the call overwrites no record, and no responses
\* and no tracking set are stored under the new id.
C27_UniqueIds ==
  [][\A p \in Procs :
       (procs[p].pc = "idle" /\ procs'[p].kind = "createSurvey")
       => /\ procs'[p].sid \notin DOMAIN surveys
          /\ stored(responses, procs'[p].sid) = << >>
          /\ stored(tracking, procs'[p].sid) = << >>]_vars

\* C28: the stored state does not link a response to its submitter by
\* position: in a survey with two responses or more it is not the case that
\* every response was submitted by the user whose digest stands at the same
\* position of the tracking list.
linkedByPosition(s) ==
  /\ Len(stored(tracking, s)) = Len(stored(responses, s))
  /\ \A i \in 1..Len(stored(responses, s)) :
       stored(tracking, s)[i] = hashOf(s, stored(authors, s)[i])
C28_NoPositionalLink ==
  \A s \in surveyIds : Len(stored(responses, s)) >= 2 => ~linkedByPosition(s)

====
